---- MODULE Spec2Model ----
(***************************************************************************)
(* A model of the chess rules engine (backend/chess/chess_board.py) and of *)
(* the alpha-beta engine (backend/chess/chess_engine.py).                   *)
(*                                                                         *)
(* The Board object is the record `Self` of its eight fields; every method *)
(* is an operator from the object (and its arguments) to the object after  *)
(* the call, so that a method's writes are visible to the properties.      *)
(* Squares are <<row, col>> with row 0 the 8th rank, as in the source.      *)
(***************************************************************************)
EXTENDS Integers, Sequences, FiniteSets, TLC

WHITE == "w"
BLACK == "b"

\* FILES = "abcdefgh", RANKS = "12345678": Python indexes them from 0.
FILES == <<"a", "b", "c", "d", "e", "f", "g", "h">>
RANKS == <<"1", "2", "3", "4", "5", "6", "7", "8">>

\* Optional values: None for a piece, a square, a promotion letter, a result.
NoPiece == [type |-> "None", color |-> "None"]
NoSquare == <<>>
NoPromo == "None"

Piece(t, c) == [type |-> t, color |-> c]

\* Piece.symbol: upper case for White, lower case for Black.
symbol(p) ==
  IF p.color = WHITE THEN p.type
  ELSE [P |-> "p", N |-> "n", B |-> "b", R |-> "r", Q |-> "q", K |-> "k"][p.type]

Move(src, dst, promotion, is_en_passant, is_castle_king, is_castle_queen, captured, piece) ==
  [src |-> src, dst |-> dst, promotion |-> promotion,
   is_en_passant |-> is_en_passant, is_castle_king |-> is_castle_king,
   is_castle_queen |-> is_castle_queen, captured |-> captured, piece |-> piece]

\* Move(src, dst) with every other field at its default.
PlainMove(src, dst) == Move(src, dst, NoPromo, FALSE, FALSE, FALSE, NoPiece, NoPiece)

in_bounds(r, c) == 0 <= r /\ r < 8 /\ 0 <= c /\ c < 8

coords_to_algebraic(rc) == FILES[rc[2] + 1] \o ToString(8 - rc[1])

Opponent(color) == IF color = BLACK THEN WHITE ELSE BLACK

Abs(n) == IF n < 0 THEN -n ELSE n

RECURSIVE Flatten(_)
Flatten(ss) == IF ss = <<>> THEN <<>> ELSE Head(ss) \o Flatten(Tail(ss))

SeqToSet(s) == {s[i] : i \in 1..Len(s)}

(***************************************************************************)
(* Setup                                                                   *)
(***************************************************************************)

BackRank == <<"R", "N", "B", "Q", "K", "B", "N", "R">>

StartGrid ==
  [r \in 0..7 |-> [c \in 0..7 |->
     CASE r = 0 -> Piece(BackRank[c + 1], BLACK)
       [] r = 1 -> Piece("P", BLACK)
       [] r = 6 -> Piece("P", WHITE)
       [] r = 7 -> Piece(BackRank[c + 1], WHITE)
       [] OTHER -> NoPiece]]

(***************************************************************************)
(* Attacks and checks                                                      *)
(***************************************************************************)

\* Knight offsets with one of the eight left out
KnightOffsetsSeven ==
  << <<2, 1>>, <<2, -1>>, <<-2, -1>>,
     <<1, 2>>, <<1, -2>>, <<-1, 2>>, <<-1, -2>> >>

KnightOffsets ==
  << <<2, 1>>, <<2, -1>>, <<-2, 1>>, <<-2, -1>>,
     <<1, 2>>, <<1, -2>>, <<-1, 2>>, <<-1, -2>> >>

KingOffsets ==
  << <<-1, -1>>, <<-1, 0>>, <<-1, 1>>, <<0, -1>>,
     <<0, 1>>, <<1, -1>>, <<1, 0>>, <<1, 1>> >>

DiagonalDirs == << <<1, 1>>, <<1, -1>>, <<-1, 1>>, <<-1, -1>> >>
StraightDirs == << <<1, 0>>, <<-1, 0>>, <<0, 1>>, <<0, -1>> >>

\* The first piece met walking from (rr, cc) in direction (dr, dc), or None.
RECURSIVE FirstOnRay(_, _, _, _, _)
FirstOnRay(grid, rr, cc, dr, dc) ==
  IF ~in_bounds(rr, cc) THEN NoPiece
  ELSE IF grid[rr][cc] # NoPiece THEN grid[rr][cc]
  ELSE FirstOnRay(grid, rr + dr, cc + dc, dr, dc)

\* The in-bounds squares at the given offsets from each square <<r, c>>.
Near(offsets) ==
  [r \in 0..7 |-> [c \in 0..7 |->
    {<<r + offsets[k][1], c + offsets[k][2]>> :
       k \in {k \in 1..Len(offsets) : in_bounds(r + offsets[k][1], c + offsets[k][2])}}]]

KnightNear == Near(KnightOffsets)

KingNear == Near(KingOffsets)

\* Where is_square_attacked_by looks for an attacking pawn: row r + dr with
\* dr = -1 for a White attacker and +1 for a Black one, columns c - 1, c + 1.
PawnNear ==
  [attacker_color \in {WHITE, BLACK} |->
    LET dr == IF attacker_color = WHITE THEN -1 ELSE 1
    IN Near(<< <<dr, -1>>, <<dr, 1>> >>)]

is_square_attacked_by(self, target, attacker_color) ==
  LET grid == self.board
      r == target[1]
      c == target[2]
      pawn == Piece("P", attacker_color)
      knight == Piece("N", attacker_color)
      king == Piece("K", attacker_color)
      Slides(d, types) ==
        LET p == FirstOnRay(grid, r + d[1], c + d[2], d[1], d[2])
        IN p.color = attacker_color /\ p.type \in types
  IN \/ \E sq \in PawnNear[attacker_color][r][c] : grid[sq[1]][sq[2]] = pawn
     \/ \E sq \in KnightNear[r][c] : grid[sq[1]][sq[2]] = knight
     \/ \E d \in SeqToSet(StraightDirs) : Slides(d, {"R", "Q"})
     \/ \E d \in SeqToSet(DiagonalDirs) : Slides(d, {"B", "Q"})
     \/ \E sq \in KingNear[r][c] : grid[sq[1]][sq[2]] = king

\* The first king of `color` in row-major order; NoSquare where the source
\* raises RuntimeError("King not found").
king_position(self, color) ==
  LET king == Piece("K", color)
      rows == {r \in 0..7 : \E c \in 0..7 : self.board[r][c] = king}
      row == CHOOSE r \in rows : \A q \in rows : r <= q
      cols == {c \in 0..7 : self.board[row][c] = king}
  IN IF rows = {} THEN NoSquare
     ELSE <<row, CHOOSE c \in cols : \A q \in cols : c <= q>>

\* is_in_check with the king's square already found.
InCheckAt(self, king_sq, color) == is_square_attacked_by(self, king_sq, Opponent(color))

\* Every method that can raise returns the object after the call, the
\* returned value and whether RuntimeError("King not found") was raised.
is_in_check(self, color) ==
  LET king_sq == king_position(self, color)
  IN IF king_sq = NoSquare
     THEN [self |-> self, ret |-> FALSE, raised |-> TRUE]
     ELSE [self |-> self, ret |-> InCheckAt(self, king_sq, color), raised |-> FALSE]

(***************************************************************************)
(* Move generation                                                         *)
(***************************************************************************)

\* Promotion kinds without the knight
PromotionsWithoutKnight == <<"Q", "R", "B">>

Promotions == <<"Q", "R", "B", "N">>

\* The moves of one ray of a bishop, rook or queen standing on src.
RECURSIVE RayMoves(_, _, _, _, _, _, _)
RayMoves(grid, src, rr, cc, dr, dc, color) ==
  IF ~in_bounds(rr, cc) THEN <<>>
  ELSE LET t == grid[rr][cc]
       IN IF t = NoPiece
          THEN <<PlainMove(src, <<rr, cc>>)>>
                 \o RayMoves(grid, src, rr + dr, cc + dc, dr, dc, color)
          ELSE IF t.color # color
               THEN <<Move(src, <<rr, cc>>, NoPromo, FALSE, FALSE, FALSE, t, NoPiece)>>
               ELSE <<>>

\* The moves of a knight or king step by step: empty or enemy destination.
StepMoves(grid, r, c, color, offsets) ==
  Flatten([i \in 1..Len(offsets) |->
    LET rr == r + offsets[i][1]
        cc == c + offsets[i][2]
    IN IF in_bounds(rr, cc) /\ (grid[rr][cc] = NoPiece \/ grid[rr][cc].color # color)
       THEN <<Move(<<r, c>>, <<rr, cc>>, NoPromo, FALSE, FALSE, FALSE, grid[rr][cc], NoPiece)>>
       ELSE <<>>])

PawnMoves(self, r, c, color) ==
  LET grid == self.board
      dir_forward == IF color = WHITE THEN -1 ELSE 1
      rr == r + dir_forward
      start_rank == IF color = WHITE THEN 6 ELSE 1
      rr2 == r + 2 * dir_forward
      WithPromotions(dst, target) ==
        IF rr \in {0, 7}
        THEN [i \in 1..Len(Promotions) |->
               Move(<<r, c>>, dst, Promotions[i], FALSE, FALSE, FALSE, target, NoPiece)]
        ELSE <<Move(<<r, c>>, dst, NoPromo, FALSE, FALSE, FALSE, target, NoPiece)>>
      pushes ==
        IF in_bounds(rr, c) /\ grid[rr][c] = NoPiece
        THEN WithPromotions(<<rr, c>>, NoPiece)
               \o (IF r = start_rank /\ grid[rr2][c] = NoPiece
                   THEN <<PlainMove(<<r, c>>, <<rr2, c>>)>>
                   ELSE <<>>)
        ELSE <<>>
      Capture(dc) ==
        LET cc == c + dc
        IN IF in_bounds(rr, cc) /\ grid[rr][cc] # NoPiece /\ grid[rr][cc].color # color
           THEN WithPromotions(<<rr, cc>>, grid[rr][cc])
           ELSE <<>>
      en_passant ==
        IF self.en_passant # NoSquare
           /\ self.en_passant[1] = r + dir_forward
           /\ Abs(self.en_passant[2] - c) = 1
        THEN <<Move(<<r, c>>, self.en_passant, NoPromo, TRUE, FALSE, FALSE, NoPiece, NoPiece)>>
        ELSE <<>>
  IN pushes \o Capture(-1) \o Capture(1) \o en_passant

SlidingMoves(grid, r, c, p) ==
  LET directions ==
        (IF p.type \in {"B", "Q"} THEN DiagonalDirs ELSE <<>>)
          \o (IF p.type \in {"R", "Q"} THEN StraightDirs ELSE <<>>)
  IN Flatten([i \in 1..Len(directions) |->
       RayMoves(grid, <<r, c>>, r + directions[i][1], c + directions[i][2],
                directions[i][1], directions[i][2], p.color)])

\* Castling candidates: the right is held and the squares between are empty.
CastlingMoves(self, r, c, color) ==
  LET grid == self.board
      Castle(right, row, cols, dst_col, king_side) ==
        IF right \in self.castling_rights /\ \A cc \in cols : grid[row][cc] = NoPiece
        THEN <<Move(<<r, c>>, <<row, dst_col>>, NoPromo, FALSE, king_side, ~king_side,
                    NoPiece, NoPiece)>>
        ELSE <<>>
  IN (IF color = WHITE /\ <<r, c>> = <<7, 4>>
      THEN Castle("K", 7, {5, 6}, 6, TRUE) \o Castle("Q", 7, {3, 2, 1}, 2, FALSE)
      ELSE <<>>)
     \o (IF color = BLACK /\ <<r, c>> = <<0, 4>>
         THEN Castle("k", 0, {5, 6}, 6, TRUE) \o Castle("q", 0, {3, 2, 1}, 2, FALSE)
         ELSE <<>>)

_generate_pseudo_moves_for_piece(self, r, c) ==
  LET p == self.board[r][c]
      moves ==
        CASE p.type = "P" -> PawnMoves(self, r, c, p.color)
          [] p.type = "N" -> StepMoves(self.board, r, c, p.color, KnightOffsets)
          [] p.type \in {"B", "R", "Q"} -> SlidingMoves(self.board, r, c, p)
          [] p.type = "K" -> StepMoves(self.board, r, c, p.color, KingOffsets)
                               \o CastlingMoves(self, r, c, p.color)
          [] OTHER -> <<>>
  IN IF p = NoPiece THEN <<>>
     ELSE [i \in 1..Len(moves) |-> [moves[i] EXCEPT !.piece = p]]

generate_pseudo_legal_moves(self, color) ==
  Flatten([rr \in 1..8 |->
    Flatten([cc \in 1..8 |->
      IF self.board[rr - 1][cc - 1].color = color
      THEN _generate_pseudo_moves_for_piece(self, rr - 1, cc - 1)
      ELSE <<>>])])

(***************************************************************************)
(* State save/restore                                                      *)
(***************************************************************************)

\* The snapshot is a 7-tuple: copies of every field but history.
_snapshot(self) ==
  <<self.board, self.turn, self.castling_rights, self.en_passant,
    self.halfmove_clock, self.fullmove_number, self.position_counts>>

\* _restore that leaves position_counts as they are
_restore_without_counts(self, snap) ==
  [self EXCEPT !.board = snap[1], !.turn = snap[2], !.castling_rights = snap[3],
               !.en_passant = snap[4], !.halfmove_clock = snap[5],
               !.fullmove_number = snap[6]]

_restore(self, snap) ==
  [self EXCEPT !.board = snap[1],
               !.turn = snap[2],
               !.castling_rights = snap[3],
               !.en_passant = snap[4],
               !.halfmove_clock = snap[5],
               !.fullmove_number = snap[6],
               !.position_counts = snap[7]]

(***************************************************************************)
(* Making and undoing moves                                                *)
(***************************************************************************)

\* The castling rights a move from src, or a capture of a rook on dst, drops.
CornerRight(sq) ==
  CASE sq = <<7, 0>> -> {"Q"}
    [] sq = <<7, 7>> -> {"K"}
    [] sq = <<0, 0>> -> {"q"}
    [] sq = <<0, 7>> -> {"k"}
    [] OTHER -> {}

\* An en-passant target that is set by a double push and never reset
DoublePushTargetKept(self, m) ==
  LET piece == self.board[m.src[1]][m.src[2]]
  IN IF ~m.is_en_passant /\ ~m.is_castle_king /\ ~m.is_castle_queen
        /\ piece.type = "P" /\ Abs(m.dst[1] - m.src[1]) = 2
     THEN <<(m.dst[1] + m.src[1]) \div 2, m.dst[2]>>
     ELSE self.en_passant

\* The en-passant target _apply_move leaves: reset to None, then set to the
\* skipped square by a two-row pawn move in the promotion-or-normal branch.
DoublePushTarget(self, m) ==
  LET piece == self.board[m.src[1]][m.src[2]]
  IN IF ~m.is_en_passant /\ ~m.is_castle_king /\ ~m.is_castle_queen
        /\ piece.type = "P" /\ Abs(m.dst[1] - m.src[1]) = 2
     THEN <<(m.dst[1] + m.src[1]) \div 2, m.dst[2]>>
     ELSE NoSquare

\* A halfmove clock that a pawn move does not reset
HalfmoveClockCapturesOnly(self, m) ==
  LET target == self.board[m.dst[1]][m.dst[2]]
  IN IF target # NoPiece \/ m.is_en_passant THEN 0 ELSE self.halfmove_clock + 1

\* The halfmove clock _apply_move leaves: 0 after a pawn move, a capture or
\* an en-passant move, one more otherwise.
HalfmoveClock(self, m) ==
  LET piece == self.board[m.src[1]][m.src[2]]
      target == self.board[m.dst[1]][m.dst[2]]
  IN IF piece.type = "P" \/ target # NoPiece \/ m.is_en_passant
     THEN 0
     ELSE self.halfmove_clock + 1

\* The grid after the move with an en-passant capture placed as a plain
\* move: nothing is removed behind the destination.
PlacedWithoutEnPassant(self, m) ==
  LET src_r == m.src[1]
      src_c == m.src[2]
      dst_r == m.dst[1]
      dst_c == m.dst[2]
      piece == self.board[src_r][src_c]
      lifted == [self.board EXCEPT ![src_r][src_c] = NoPiece]
      home == IF piece.color = WHITE THEN 7 ELSE 0
  IN CASE ~m.is_en_passant /\ m.is_castle_king ->
            [lifted EXCEPT ![dst_r][dst_c] = piece,
                           ![home][7] = NoPiece,
                           ![home][5] = Piece("R", piece.color)]
       [] ~m.is_en_passant /\ ~m.is_castle_king /\ m.is_castle_queen ->
            [lifted EXCEPT ![dst_r][dst_c] = piece,
                           ![home][0] = NoPiece,
                           ![home][3] = Piece("R", piece.color)]
       [] OTHER ->
            IF m.promotion # NoPromo /\ piece.type = "P"
            THEN [lifted EXCEPT ![dst_r][dst_c] = Piece(m.promotion, piece.color)]
            ELSE [lifted EXCEPT ![dst_r][dst_c] = piece]

\* "Move piece (handle special cases)": the grid after the move.  En passant
\* empties the square behind the destination, castling moves the rook of the
\* corner too, a promoting pawn is replaced.
Placed(self, m) ==
  LET src_r == m.src[1]
      src_c == m.src[2]
      dst_r == m.dst[1]
      dst_c == m.dst[2]
      piece == self.board[src_r][src_c]
      lifted == [self.board EXCEPT ![src_r][src_c] = NoPiece]
      cap_r == dst_r + (IF piece.color = WHITE THEN 1 ELSE -1)
      home == IF piece.color = WHITE THEN 7 ELSE 0
  IN CASE m.is_en_passant ->
            [lifted EXCEPT ![cap_r][dst_c] = NoPiece, ![dst_r][dst_c] = piece]
       [] ~m.is_en_passant /\ m.is_castle_king ->
            [lifted EXCEPT ![dst_r][dst_c] = piece,
                           ![home][7] = NoPiece,
                           ![home][5] = Piece("R", piece.color)]
       [] ~m.is_en_passant /\ ~m.is_castle_king /\ m.is_castle_queen ->
            [lifted EXCEPT ![dst_r][dst_c] = piece,
                           ![home][0] = NoPiece,
                           ![home][3] = Piece("R", piece.color)]
       [] OTHER ->
            IF m.promotion # NoPromo /\ piece.type = "P"
            THEN [lifted EXCEPT ![dst_r][dst_c] = Piece(m.promotion, piece.color)]
            ELSE [lifted EXCEPT ![dst_r][dst_c] = piece]

_apply_move(self, m) ==
  LET src_r == m.src[1]
      src_c == m.src[2]
      dst_r == m.dst[1]
      dst_c == m.dst[2]
      piece == self.board[src_r][src_c]
      target == self.board[dst_r][dst_c]
      dropped ==
        (IF piece.type = "K"
         THEN (IF piece.color = WHITE THEN {"K", "Q"} ELSE {"k", "q"})
         ELSE {})
        \cup (IF piece.type = "R" THEN CornerRight(m.src) ELSE {})
        \cup (IF target # NoPiece /\ target.type = "R" THEN CornerRight(m.dst) ELSE {})
  IN [self EXCEPT !.halfmove_clock = HalfmoveClock(self, m),
                  !.en_passant = DoublePushTarget(self, m),
                  !.board = Placed(self, m),
                  !.castling_rights = @ \ dropped]

\* One iteration of the legality filter's loop, for the pseudo-legal move m.
\* st holds the object, the legal moves collected so far and whether
\* RuntimeError("King not found") has been raised.  The object is threaded
\* through snapshot/apply/restore; when king_position raises inside
\* is_in_check the loop is left with the probed move still applied, as no
\* handler restores the snapshot.
LegalStep(st, color, m) ==
  LET self == st.self
      is_castle ==
        m.piece # NoPiece /\ m.piece.type = "K" /\ (m.is_castle_king \/ m.is_castle_queen)
      path_cols == IF m.dst \in {<<7, 6>>, <<0, 6>>} THEN {5, 6} ELSE {3, 2}
      row == m.src[1]
      snap == _snapshot(self)
      applied == _apply_move(self, m)
      king_sq == king_position(applied, color)
  IN IF is_castle /\ king_position(self, color) = NoSquare
     THEN [st EXCEPT !.ret = <<>>, !.raised = TRUE]
     ELSE IF is_castle
             /\ (\/ InCheckAt(self, king_position(self, color), color)
                 \/ \E cc \in path_cols :
                      is_square_attacked_by(self, <<row, cc>>, Opponent(color)))
     THEN st
     ELSE IF king_sq = NoSquare
     THEN [self |-> applied, ret |-> <<>>, raised |-> TRUE]
     ELSE [self |-> _restore(applied, snap),
           ret |-> IF InCheckAt(applied, king_sq, color) THEN st.ret ELSE Append(st.ret, m),
           raised |-> FALSE]

\* The loop over the pseudo-legal moves from the i-th on; it stops at the
\* first raise.
RECURSIVE LegalLoop(_, _, _, _)
LegalLoop(st, color, pseudo, i) ==
  IF st.raised \/ i > Len(pseudo) THEN st
  ELSE LegalLoop(LegalStep(st, color, pseudo[i]), color, pseudo, i + 1)

\* Returns the object after the call, the legal moves in generation order
\* and whether RuntimeError("King not found") was raised.
generate_legal_moves(self, color) ==
  LegalLoop([self |-> self, ret |-> <<>>, raised |-> FALSE], color,
            generate_pseudo_legal_moves(self, color), 1)

\* An identity tuple that also holds the moving piece
MoveKeyWithPiece(m) ==
  <<m.src, m.dst, m.promotion, m.is_en_passant, m.is_castle_king, m.is_castle_queen,
    m.piece>>

\* The identity tuple make_move matches moves by.
MoveKey(m) ==
  <<m.src, m.dst, m.promotion, m.is_en_passant, m.is_castle_king, m.is_castle_queen>>

(***************************************************************************)
(* Position keys and draws                                                 *)
(***************************************************************************)

\* One row of the FEN-like key: runs of empty squares as their length.
RECURSIVE RowKey(_, _, _, _)
RowKey(row, c, empty, acc) ==
  LET flushed == IF empty > 0 THEN acc \o ToString(empty) ELSE acc
  IN IF c = 8 THEN flushed
     ELSE IF row[c] = NoPiece THEN RowKey(row, c + 1, empty + 1, acc)
     ELSE RowKey(row, c + 1, 0, flushed \o symbol(row[c]))

RECURSIVE JoinRows(_, _)
JoinRows(grid, r) ==
  IF r = 7 THEN RowKey(grid[r], 0, 0, "")
  ELSE RowKey(grid[r], 0, 0, "") \o "/" \o JoinRows(grid, r + 1)

_position_key(self) ==
  LET pieces == JoinRows(self.board, 0)
      sorted == (IF "K" \in self.castling_rights THEN "K" ELSE "")
                  \o (IF "Q" \in self.castling_rights THEN "Q" ELSE "")
                  \o (IF "k" \in self.castling_rights THEN "k" ELSE "")
                  \o (IF "q" \in self.castling_rights THEN "q" ELSE "")
      cr == IF sorted = "" THEN "-" ELSE sorted
      ep == IF self.en_passant # NoSquare THEN coords_to_algebraic(self.en_passant) ELSE "-"
  IN pieces \o " " \o self.turn \o " " \o cr \o " " \o ep

\* dict.get(key, 0)
Get(dict, key) == IF key \in DOMAIN dict THEN dict[key] ELSE 0

_increment_position_count(self) ==
  LET key == _position_key(self)
  IN [self EXCEPT !.position_counts =
        [k \in DOMAIN @ \cup {key} |-> IF k = key THEN Get(@, key) + 1 ELSE @[k]]]

\* make_move once generate_legal_moves(self.turn) has returned `legal`.
MakeMoveGiven(self, m, legal) ==
  LET legal_keyset == {MoveKey(legal.ret[i]) : i \in 1..Len(legal.ret)}
      snap == _snapshot(legal.self)
      pushed == [legal.self EXCEPT !.history = Append(@, snap)]
      applied == _apply_move(pushed, m)
      flipped == [applied EXCEPT !.turn = Opponent(@)]
      counted == IF flipped.turn = WHITE
                 THEN [flipped EXCEPT !.fullmove_number = @ + 1]
                 ELSE flipped
  IN IF legal.raised THEN [self |-> legal.self, ret |-> FALSE, raised |-> TRUE]
     ELSE IF MoveKey(m) \notin legal_keyset
     THEN [self |-> legal.self, ret |-> FALSE, raised |-> FALSE]
     ELSE [self |-> _increment_position_count(counted), ret |-> TRUE, raised |-> FALSE]

make_move(self, m) == MakeMoveGiven(self, m, generate_legal_moves(self, self.turn))

\* undo that restores the last snapshot and leaves it on the history
undo_without_pop(self) ==
  IF self.history = <<>> THEN [self |-> self, ret |-> FALSE, raised |-> FALSE]
  ELSE [self |-> _restore(self, self.history[Len(self.history)]), ret |-> TRUE,
        raised |-> FALSE]

undo(self) ==
  IF self.history = <<>> THEN [self |-> self, ret |-> FALSE, raised |-> FALSE]
  ELSE LET snap == self.history[Len(self.history)]
           popped == [self EXCEPT !.history = SubSeq(@, 1, Len(@) - 1)]
       IN [self |-> _restore(popped, snap), ret |-> TRUE, raised |-> FALSE]

all_legal_moves(self) == generate_legal_moves(self, self.turn)

\* len(all_legal_moves()) == 0, given what all_legal_moves() did
NoneLegal(legal) ==
  [self |-> legal.self, ret |-> ~legal.raised /\ Len(legal.ret) = 0, raised |-> legal.raised]

\* "is_in_check(turn) and ..." (in_check TRUE) or "(not is_in_check(turn))
\* and ..." (in_check FALSE), followed by "len(all_legal_moves()) == 0": the
\* moves are generated only when the first operand holds.
NoMoveAnd(self, chk, in_check) ==
  IF chk.raised THEN [self |-> self, ret |-> FALSE, raised |-> TRUE]
  ELSE IF chk.ret # in_check THEN [self |-> self, ret |-> FALSE, raised |-> FALSE]
  ELSE NoneLegal(all_legal_moves(self))

is_checkmate(self) == NoMoveAnd(self, is_in_check(self, self.turn), TRUE)

is_stalemate(self) == NoMoveAnd(self, is_in_check(self, self.turn), FALSE)

is_draw_by_50(self) == self.halfmove_clock >= 100

\* A repetition draw declared on the second occurrence
is_draw_by_twofold(self) == Get(self.position_counts, _position_key(self)) >= 2

is_draw_by_threefold(self) == Get(self.position_counts, _position_key(self)) >= 3

\* Board(): the starting position, its key counted once.
NewBoard ==
  _increment_position_count(
    [board |-> StartGrid, turn |-> WHITE, castling_rights |-> {"K", "Q", "k", "q"},
     en_passant |-> NoSquare, halfmove_clock |-> 0, fullmove_number |-> 1,
     history |-> <<>>, position_counts |-> [k \in {} |-> 0]])

(***************************************************************************)
(* Move texts                                                              *)
(*                                                                         *)
(* A Python str is the sequence of its characters.                         *)
(***************************************************************************)

UpperCase ==
  <<"A", "B", "C", "D", "E", "F", "G", "H", "I", "J", "K", "L", "M",
    "N", "O", "P", "Q", "R", "S", "T", "U", "V", "W", "X", "Y", "Z">>

LowerCase ==
  <<"a", "b", "c", "d", "e", "f", "g", "h", "i", "j", "k", "l", "m",
    "n", "o", "p", "q", "r", "s", "t", "u", "v", "w", "x", "y", "z">>

Digits == <<"0", "1", "2", "3", "4", "5", "6", "7", "8", "9">>

Whitespace == {" ", "\t", "\n", "\r"}

\* The position of ch in the sequence chars, 0 when it is not there.
IndexIn(chars, ch) ==
  IF \E k \in 1..Len(chars) : chars[k] = ch
  THEN CHOOSE k \in 1..Len(chars) : chars[k] = ch
  ELSE 0

\* str.lower and str.upper, character by character
lower(s) ==
  [k \in 1..Len(s) |-> IF IndexIn(UpperCase, s[k]) > 0
                       THEN LowerCase[IndexIn(UpperCase, s[k])] ELSE s[k]]

upper(s) ==
  [k \in 1..Len(s) |-> IF IndexIn(LowerCase, s[k]) > 0
                       THEN UpperCase[IndexIn(LowerCase, s[k])] ELSE s[k]]

\* str.strip: without the leading and the trailing whitespace
strip(s) ==
  LET kept == {k \in 1..Len(s) : s[k] \notin Whitespace}
      first == CHOOSE k \in kept : \A q \in kept : k <= q
      last == CHOOSE k \in kept : \A q \in kept : q <= k
  IN IF kept = {} THEN <<>> ELSE SubSeq(s, first, last)

\* 'e2' -> <<row, col>>.  raised: the IndexError of sq[0] or sq[1] on a short
\* text, the ValueError of FILES.index on a character that is no file, the
\* ValueError of int on a character that is no digit.  The row is 8 - rank
\* for every digit: there is no bounds check.
algebraic_to_coords(sq) ==
  LET t == lower(strip(sq))
      file == IndexIn(FILES, t[1]) - 1
      rank == IndexIn(Digits, t[2]) - 1
  IN IF Len(t) < 2 \/ file < 0 \/ rank < 0
     THEN [ret |-> NoSquare, raised |-> TRUE]
     ELSE [ret |-> <<8 - rank, file>>, raised |-> FALSE]

\* None for a move
NoMove == Move(NoSquare, NoSquare, NoPromo, FALSE, FALSE, FALSE, NoPiece, NoPiece)

KingsideTexts ==
  {<<"0", "-", "0">>, <<"o", "-", "o">>, <<"e", "1", "g", "1">>, <<"e", "8", "g", "8">>}

QueensideTexts ==
  {<<"0", "-", "0", "-", "0">>, <<"o", "-", "o", "-", "o">>,
   <<"e", "1", "c", "1">>, <<"e", "8", "c", "8">>}

\* The first move of the list among those at the indices `hits`, None when
\* there is none: "for m in moves: if test(m): return m", then "return None".
FirstMove(moves, hits) ==
  IF hits = {} THEN NoMove ELSE moves[CHOOSE k \in hits : \A q \in hits : k <= q]

\* parse_move_str where `legal` is what all_legal_moves() returns when the
\* branch taken calls it: the texts rejected before that never call it.
ParseMoveStrGiven(self, str, legal) ==
  LET s == lower(strip(str))
      src == algebraic_to_coords(SubSeq(s, 1, 2))
      dst == algebraic_to_coords(SubSeq(s, 3, 4))
      promo == IF Len(s) = 5 THEN upper(<<s[5]>>)[1] ELSE NoPromo
      IsCastleKing(m) == m.is_castle_king
      IsCastleQueen(m) == m.is_castle_queen
      Matches(m) == m.src = src.ret /\ m.dst = dst.ret /\ promo = m.promotion
      Found(Test(_)) ==
        IF legal.raised
        THEN [self |-> legal.self, ret |-> NoMove, raised |-> TRUE]
        ELSE [self |-> legal.self, ret |-> FirstMove(legal.ret, {k \in 1..Len(legal.ret) : Test(legal.ret[k])}),
              raised |-> FALSE]
      Rejected == [self |-> self, ret |-> NoMove, raised |-> FALSE]
  IN IF s \in KingsideTexts THEN Found(IsCastleKing)
     ELSE IF s \in QueensideTexts THEN Found(IsCastleQueen)
     ELSE IF Len(s) \notin {4, 5} THEN Rejected
     ELSE IF src.raised \/ dst.raised THEN Rejected
     ELSE Found(Matches)

parse_move_str(self, str) == ParseMoveStrGiven(self, str, all_legal_moves(self))

(***************************************************************************)
(* The engine (chess_engine.py)                                            *)
(***************************************************************************)

PIECE_VALUES == [P |-> 100, N |-> 320, B |-> 330, R |-> 500, Q |-> 900, K |-> 0]

\* 10**9, the bound of the search window
INF == 1000000000

\* The material of the squares of one row from column c on, White's
\* pieces counted positive and Black's negative.
RECURSIVE RowMaterial(_, _)
RowMaterial(row, c) ==
  IF c = 8 THEN 0
  ELSE (IF row[c] = NoPiece THEN 0
        ELSE IF row[c].color = WHITE THEN PIECE_VALUES[row[c].type]
        ELSE -PIECE_VALUES[row[c].type])
       + RowMaterial(row, c + 1)

RECURSIVE Material(_, _)
Material(grid, r) ==
  IF r = 8 THEN 0 ELSE RowMaterial(grid[r], 0) + Material(grid, r + 1)

\* The check nudges: minus 10 when White is in check, plus 10 when Black is.
CheckNudge(white_chk, black_chk) ==
  (IF white_chk.ret THEN -10 ELSE 0) + (IF black_chk.ret THEN 10 ELSE 0)

\* evaluate once both sides' legal moves have been generated
Evaluated(self, white, black) ==
  IF black.raised THEN [self |-> black.self, ret |-> 0, raised |-> TRUE]
  ELSE IF king_position(black.self, WHITE) = NoSquare
          \/ king_position(black.self, BLACK) = NoSquare
  THEN [self |-> black.self, ret |-> 0, raised |-> TRUE]
  ELSE [self |-> black.self,
        ret |-> Material(self.board, 0) + Len(white.ret) - Len(black.ret)
                + CheckNudge(is_in_check(black.self, WHITE), is_in_check(black.self, BLACK)),
        raised |-> FALSE]

\* evaluate once White's legal moves have been generated
EvaluateBlack(self, white) ==
  IF white.raised THEN [self |-> white.self, ret |-> 0, raised |-> TRUE]
  ELSE Evaluated(self, white, generate_legal_moves(white.self, BLACK))

\* Material, plus the legal moves White has more than Black, plus the check
\* nudges.  Both sides' legal moves are generated whoever is to move.
evaluate(self) == EvaluateBlack(self, generate_legal_moves(self, WHITE))

\* The sort key of a move: captures and promotions first.
order(m) == IF m.captured # NoPiece \/ m.promotion # NoPromo THEN 1 ELSE 0

\* moves.sort(key=order, reverse=True): the sort is stable, so each class
\* keeps its generation order.
SortMoves(moves) ==
  LET First(m) == order(m) = 1
      Second(m) == order(m) = 0
  IN SelectSeq(moves, First) \o SelectSeq(moves, Second)

\* The loop body up to the recursive call: snapshot, apply the move, flip
\* the turn, count the full move, count the position.
Child(self, m) ==
  LET snap == _snapshot(self)
      applied == _apply_move(self, m)
      flipped == [applied EXCEPT !.turn = Opponent(@)]
      counted == IF flipped.turn = WHITE
                 THEN [flipped EXCEPT !.fullmove_number = @ + 1]
                 ELSE flipped
  IN [self |-> _increment_position_count(counted), snap |-> snap]

\* What the start of _search makes of a node: a leaf with its evaluation, an
\* inner node with its sorted moves, or a raise.
Leaf(e) ==
  [self |-> e.self, kind |-> IF e.raised THEN "raised" ELSE "leaf", val |-> e.ret,
   moves |-> <<>>]

Raised(obj) == [self |-> obj, kind |-> "raised", val |-> 0, moves |-> <<>>]

\* "moves = board.all_legal_moves(); if not moves: return evaluate(board)",
\* then the sort
VisitMoves(legal) ==
  IF legal.raised THEN Raised(legal.self)
  ELSE IF legal.ret = <<>> THEN Leaf(evaluate(legal.self))
  ELSE [self |-> legal.self, kind |-> "inner", val |-> 0, moves |-> SortMoves(legal.ret)]

VisitStale(stale) ==
  IF stale.raised THEN Raised(stale.self)
  ELSE IF stale.ret THEN Leaf(evaluate(stale.self))
  ELSE VisitMoves(all_legal_moves(stale.self))

VisitMate(mate) ==
  IF mate.raised THEN Raised(mate.self)
  ELSE IF mate.ret THEN Leaf(evaluate(mate.self))
  ELSE VisitStale(is_stalemate(mate.self))

\* The start of _search without the test of the depth
VisitWithoutDepthTest(self, depth) == VisitMate(is_checkmate(self))

\* The start of _search(board, depth, alpha, beta), up to its loop:
\* "if depth == 0 or board.is_checkmate() or board.is_stalemate():
\* return self.evaluate(board)", then the moves.
Visit(self, depth) ==
  IF depth = 0 THEN Leaf(evaluate(self)) ELSE VisitMate(is_checkmate(self))

\* best = -10**9 if board.turn == WHITE else 10**9
WorstFor(color) == IF color = WHITE THEN -INF ELSE INF

\* One activation of _search or choose_move inside its loop: the sorted
\* moves, the index k of the move being searched, the snapshot taken before
\* it, the window, the best value (and, in choose_move, the best move).
Frame(root, moves, k, snap, alpha, beta, best, best_move, depth) ==
  [root |-> root, moves |-> moves, k |-> k, snap |-> snap, alpha |-> alpha,
   beta |-> beta, best |-> best, best_move |-> best_move, depth |-> depth]

\* The loop body of _search with the loop cut as soon as a value has
\* narrowed the window
AfterChildCutEarly(self, f, val) ==
  LET restored == _restore(self, f.snap)
      white == restored.turn = WHITE
      best == IF white
              THEN (IF val > f.best THEN val ELSE f.best)
              ELSE (IF val < f.best THEN val ELSE f.best)
      alpha == IF white /\ best > f.alpha THEN best ELSE f.alpha
      beta == IF ~white /\ best < f.beta THEN best ELSE f.beta
  IN [self |-> restored,
      frame |-> [f EXCEPT !.best = best, !.alpha = alpha, !.beta = beta],
      over |-> alpha # f.alpha \/ beta # f.beta \/ f.k = Len(f.moves)]

\* The rest of the loop body of _search once the recursive call has returned
\* val: restore, update best and the window, decide whether the loop ends.
AfterChild(self, f, val) ==
  LET restored == _restore(self, f.snap)
      white == restored.turn = WHITE
      best == IF white
              THEN (IF val > f.best THEN val ELSE f.best)
              ELSE (IF val < f.best THEN val ELSE f.best)
      alpha == IF white /\ best > f.alpha THEN best ELSE f.alpha
      beta == IF ~white /\ best < f.beta THEN best ELSE f.beta
  IN [self |-> restored,
      frame |-> [f EXCEPT !.best = best, !.alpha = alpha, !.beta = beta],
      over |-> alpha >= beta \/ f.k = Len(f.moves)]

\* The same in choose_move: the best move is replaced on a strictly better
\* value only, the window is never narrowed and the loop is never cut.
AfterRootChild(self, f, val) ==
  LET restored == _restore(self, f.snap)
      better == IF restored.turn = WHITE THEN val > f.best ELSE val < f.best
  IN [self |-> restored,
      frame |-> IF better THEN [f EXCEPT !.best = val, !.best_move = f.moves[f.k]] ELSE f,
      over |-> f.k = Len(f.moves)]

(***************************************************************************)
(* The program as a state machine                                          *)
(*                                                                         *)
(* One Board object (main.py's global `board`), one caller and the engine. *)
(* The caller makes one call at a time: the call's result stays in `ret`   *)
(* until the caller has taken it (Return).  choose_move runs in steps, one *)
(* per call of _search and one per return from it.  A RuntimeError ends    *)
(* the run: the model follows the program up to its first raise.           *)
(***************************************************************************)

VARIABLES
  board,            \* Board.board, the 8x8 grid
  turn,             \* Board.turn
  castling_rights,  \* Board.castling_rights
  en_passant,       \* Board.en_passant
  halfmove_clock,   \* Board.halfmove_clock
  fullmove_number,  \* Board.fullmove_number
  history,          \* Board.history, the stack of snapshots
  position_counts,  \* Board.position_counts
  frames,           \* the activations of choose_move and _search, outermost first
  pending,          \* the call of _search about to start, or the value it returned
  ret,              \* the call made last: its arguments, result and state before
  trail,            \* the objects before each committed move the caller has not seen undone
  script            \* the move texts the caller uses in this run

vars ==
  <<board, turn, castling_rights, en_passant, halfmove_clock, fullmove_number,
    history, position_counts, frames, pending, ret, trail, script>>

\* The Board object
Self ==
  [board |-> board, turn |-> turn, castling_rights |-> castling_rights,
   en_passant |-> en_passant, halfmove_clock |-> halfmove_clock,
   fullmove_number |-> fullmove_number, history |-> history,
   position_counts |-> position_counts]

\* The object's fields become those of obj.
Becomes(obj) ==
  /\ board' = obj.board
  /\ turn' = obj.turn
  /\ castling_rights' = obj.castling_rights
  /\ en_passant' = obj.en_passant
  /\ halfmove_clock' = obj.halfmove_clock
  /\ fullmove_number' = obj.fullmove_number
  /\ history' = obj.history
  /\ position_counts' = obj.position_counts

\* The longest game played, the longest game of knight moves only, and the
\* deepest search asked for
MaxPly == 9
LongPly == 100
MaxDepth == 3

Idle == [kind |-> "idle", depth |-> 0, alpha |-> 0, beta |-> 0, val |-> 0]

Calling(depth, alpha, beta) ==
  [kind |-> "call", depth |-> depth, alpha |-> alpha, beta |-> beta, val |-> 0]

Returning(val) == [kind |-> "return", depth |-> 0, alpha |-> 0, beta |-> 0, val |-> val]

NoRet == [op |-> "none", arg |-> <<>>, val |-> <<>>, status |-> "none",
          pre |-> <<>>, legal |-> <<>>]

\* The record of a call: status is "returned", "raised" or, while
\* choose_move is searching, "running"; legal is the list of legal moves the
\* call generated for the side to move, when it generated one.
Called(op, arg, val, raised, pre, legal) ==
  [op |-> op, arg |-> arg, val |-> val,
   status |-> IF raised THEN "raised" ELSE "returned", pre |-> pre, legal |-> legal]

\* The caller can make a call: none is running and none has raised.
Ready == ret.op = "none" /\ pending.kind = "idle"

(***************************************************************************)
(* The caller's inputs                                                     *)
(*                                                                         *)
(* A run uses the texts of one script and commits at most `plies` moves;   *)
(* engine_at are the plies at which the caller asks the engine for a move, *)
(* with a depth of at most `depth`.                                        *)
(***************************************************************************)

\* Both sides develop and castle short; castling is also asked for by token.
CastlingGame ==
  [texts |->
    {<<"e", "2", "e", "4">>,
     <<"e", "7", "e", "5">>,
     <<"g", "1", "f", "3">>,
     <<"g", "8", "f", "6">>,
     <<"f", "1", "c", "4">>,
     <<"f", "8", "c", "5">>,
     <<"e", "1", "g", "1">>,
     <<"e", "8", "g", "8">>,
     <<"O", "-", "O">>},
   engine_at |-> {}, depth |-> MaxDepth - 1, plies |-> MaxPly]

\* 1. f3 e5 2. g4 Qh4 mate; the engine is asked for Black's second move and
\* for a move in the mated position.
MateGame ==
  [texts |->
    {<<"f", "2", "f", "3">>,
     <<"e", "7", "e", "5">>,
     <<"g", "2", "g", "4">>,
     <<"d", "8", "h", "4">>},
   engine_at |-> {3, 4}, depth |-> MaxDepth - 1, plies |-> MaxPly]

\* 1. e4 a6 2. e5 d5 3. exd6 en passant, with texts that name no move; the
\* engine is asked for White's third move, one ply deep.
EnPassantGame ==
  [texts |->
    {<<"e", "2", "e", "4">>,
     <<"a", "7", "a", "6">>,
     <<"e", "4", "e", "5">>,
     <<"d", "7", "d", "5">>,
     <<"e", "5", "d", "6">>,
     <<"e", "2">>,
     <<"i", "2", "e", "4">>,
     <<"e", "9", "e", "4">>,
     <<"e", "2", " ", "e", "4">>,
     <<"e", "2", "e", "4", "x">>,
     <<" ", "E", "2", "E", "4", " ">>},
   engine_at |-> {4}, depth |-> MaxDepth - 2, plies |-> MaxPly]

\* The h-pawn captures its way to g8 and promotes.
PromotionGame ==
  [texts |->
    {<<"h", "2", "h", "4">>,
     <<"g", "7", "g", "5">>,
     <<"h", "4", "g", "5">>,
     <<"h", "7", "h", "6">>,
     <<"g", "5", "h", "6">>,
     <<"a", "7", "a", "6">>,
     <<"h", "6", "h", "7">>,
     <<"a", "6", "a", "5">>,
     <<"h", "7", "g", "8", "q">>,
     <<"h", "7", "g", "8">>,
     <<"h", "7", "g", "8", "N">>},
   engine_at |-> {}, depth |-> MaxDepth - 1, plies |-> MaxPly]

\* The white king steps to d2 and the queen to e1, from where she can go to c1.
QueenGame ==
  [texts |->
    {<<"d", "2", "d", "3">>,
     <<"g", "8", "f", "6">>,
     <<"c", "1", "e", "3">>,
     <<"f", "6", "g", "8">>,
     <<"e", "1", "d", "2">>,
     <<"d", "1", "e", "1">>,
     <<"e", "1", "c", "1">>,
     <<"0", "-", "0", "-", "0">>},
   engine_at |-> {}, depth |-> MaxDepth - 1, plies |-> MaxPly]

\* A black pawn reaches g2 while White gets ready to castle short, and
\* promotes on g1 or, capturing, on f1.
PawnRaidGame ==
  [texts |->
    {<<"g", "1", "f", "3">>,
     <<"g", "7", "g", "5">>,
     <<"e", "2", "e", "3">>,
     <<"g", "5", "g", "4">>,
     <<"f", "1", "e", "2">>,
     <<"g", "4", "f", "3">>,
     <<"a", "2", "a", "3">>,
     <<"f", "3", "g", "2">>,
     <<"e", "1", "g", "1">>,
     <<"a", "3", "a", "4">>,
     <<"g", "2", "f", "1", "n">>,
     <<"g", "2", "g", "1", "q">>},
   engine_at |-> {}, depth |-> MaxDepth - 1, plies |-> MaxPly + 1]

\* The white king walks to e3, next to the black pawn on d4; the engine is asked
\* for Black's move there.
KingWalkGame ==
  [texts |->
    {<<"e", "2", "e", "4">>,
     <<"d", "7", "d", "5">>,
     <<"e", "1", "e", "2">>,
     <<"d", "5", "d", "4">>,
     <<"e", "2", "e", "3">>,
     <<"d", "4", "e", "3">>},
   engine_at |-> {5}, depth |-> MaxDepth - 1, plies |-> MaxPly]

\* The knights go out and back: the starting position comes again, and no
\* pawn moves and nothing is captured for as long as the game goes on.
KnightDance ==
  [texts |->
    {<<"g", "1", "f", "3">>,
     <<"g", "8", "f", "6">>,
     <<"f", "3", "g", "1">>,
     <<"f", "6", "g", "8">>},
   engine_at |-> {}, depth |-> MaxDepth - 1, plies |-> LongPly]

\* 1. e4 f6 2. Qh5+ g6 3. Qxg6+: Black is in check twice.
CheckGame ==
  [texts |->
    {<<"e", "2", "e", "4">>,
     <<"f", "7", "f", "6">>,
     <<"d", "1", "h", "5">>,
     <<"g", "7", "g", "6">>,
     <<"h", "5", "g", "6">>},
   engine_at |-> {}, depth |-> MaxDepth - 1, plies |-> MaxPly]

\* A white pawn marches to e6 and on to f7, beside the black king, and takes
\* on e8; or it stays on e6 and the queen, going by h5, takes on f7.
PawnStormGame ==
  [texts |->
    {<<"e", "2", "e", "4">>,
     <<"a", "7", "a", "6">>,
     <<"e", "4", "e", "5">>,
     <<"a", "6", "a", "5">>,
     <<"e", "5", "e", "6">>,
     <<"a", "5", "a", "4">>,
     <<"e", "6", "f", "7">>,
     <<"a", "4", "a", "3">>,
     <<"f", "7", "e", "8", "q">>,
     <<"d", "1", "h", "5">>,
     <<"h", "5", "f", "7">>},
   engine_at |-> {}, depth |-> MaxDepth - 1, plies |-> MaxPly]

\* 1. e4 e5 2. Nf3 Nc6; the engine is asked for White's first move.
OpeningGame ==
  [texts |->
    {<<"e", "2", "e", "4">>,
     <<"e", "7", "e", "5">>,
     <<"g", "1", "f", "3">>,
     <<"b", "8", "c", "6">>},
   engine_at |-> {0}, depth |-> MaxDepth - 1, plies |-> MaxPly]

\* 1. e4 f6 2. Qh5+: Black has one legal move, 2... g6; the engine is asked
\* for it with the deepest search.
QueenCheckGame ==
  [texts |->
    {<<"e", "2", "e", "4">>,
     <<"f", "7", "f", "6">>,
     <<"d", "1", "h", "5">>},
   engine_at |-> {3}, depth |-> MaxDepth, plies |-> MaxPly]

Scripts ==
  {CastlingGame,
   MateGame,
   EnPassantGame,
   PromotionGame,
   QueenGame,
   PawnRaidGame,
   KingWalkGame,
   KnightDance,
   CheckGame,
   PawnStormGame,
   OpeningGame,
   QueenCheckGame}

\* The flags a caller may set on the Move it builds: none, en passant,
\* castling short, castling long.
FlagChoices ==
  {<<FALSE, FALSE, FALSE>>, <<TRUE, FALSE, FALSE>>,
   <<FALSE, TRUE, FALSE>>, <<FALSE, FALSE, TRUE>>}

\* The Move objects a caller builds by hand from the squares (and the
\* promotion letter) of a text: captured and piece are left at None.
BuiltMoves(text) ==
  LET s == lower(strip(text))
      src == algebraic_to_coords(SubSeq(s, 1, 2))
      dst == algebraic_to_coords(SubSeq(s, 3, 4))
      promo == IF Len(s) = 5 THEN upper(<<s[5]>>)[1] ELSE NoPromo
  IN IF Len(s) \notin {4, 5} \/ src.raised \/ dst.raised
     THEN {}
     ELSE {Move(src.ret, dst.ret, promo, f[1], f[2], f[3], NoPiece, NoPiece) :
             f \in FlagChoices}

(***************************************************************************)
(* Board()                                                                 *)
(***************************************************************************)
Init ==
  /\ script \in Scripts
  /\ board = NewBoard.board
  /\ turn = NewBoard.turn
  /\ castling_rights = NewBoard.castling_rights
  /\ en_passant = NewBoard.en_passant
  /\ halfmove_clock = NewBoard.halfmove_clock
  /\ fullmove_number = NewBoard.fullmove_number
  /\ history = NewBoard.history
  /\ position_counts = NewBoard.position_counts
  /\ frames = <<>>
  /\ pending = Idle
  /\ ret = NoRet
  /\ trail = <<>>

\* The effect of one call of make_move(m) whose result is res.
MakeMoveCall(m, res, legal) ==
  /\ Becomes(res.self)
  /\ ret' = Called("make_move", m, res.ret, res.raised, Self, legal.ret)
  /\ trail' = IF res.ret THEN Append(trail, Self) ELSE trail
  /\ UNCHANGED <<frames, pending, script>>

\* board.make_move(m) with a Move the caller built.
MakeMove ==
  /\ Ready
  /\ Len(history) < script.plies
  /\ \E legal \in {generate_legal_moves(Self, turn)} :
       \E text \in script.texts :
         \E m \in BuiltMoves(text) :
           \E res \in {MakeMoveGiven(Self, m, legal)} :
             MakeMoveCall(m, res, legal)

\* board.make_move(m) with the Move parse_move_str has just returned, as
\* /api/move does.
MakeParsedMove ==
  /\ ret.op = "parse_move_str"
  /\ ret.status = "returned"
  /\ ret.val # NoMove
  /\ Len(history) < script.plies
  /\ \E legal \in {generate_legal_moves(Self, turn)} :
       \E res \in {MakeMoveGiven(Self, ret.val, legal)} :
         MakeMoveCall(ret.val, res, legal)

\* board.undo()
Undo ==
  /\ Ready
  /\ \E res \in {undo(Self)} :
       /\ Becomes(res.self)
       /\ ret' = Called("undo", <<>>, res.ret, res.raised, Self, <<>>)
  /\ UNCHANGED <<frames, pending, trail, script>>

\* board.parse_move_str(text)
ParseMoveStr ==
  /\ Ready
  /\ \E legal \in {all_legal_moves(Self)} :
       \E text \in script.texts :
         \E res \in {ParseMoveStrGiven(Self, text, legal)} :
           /\ Becomes(res.self)
           /\ ret' = Called("parse_move_str", text, res.ret, res.raised, Self, legal.ret)
  /\ UNCHANGED <<frames, pending, trail, script>>

\* board.all_legal_moves()
AllLegalMoves ==
  /\ Ready
  /\ \E res \in {all_legal_moves(Self)} :
       /\ Becomes(res.self)
       /\ ret' = Called("all_legal_moves", <<>>, res.ret, res.raised, Self, res.ret)
  /\ UNCHANGED <<frames, pending, trail, script>>

\* board.is_draw_by_threefold()
IsDrawByThreefold ==
  /\ Ready
  /\ ret' = Called("is_draw_by_threefold", <<>>, is_draw_by_threefold(Self), FALSE, Self, <<>>)
  /\ UNCHANGED <<board, turn, castling_rights, en_passant, halfmove_clock,
                 fullmove_number, history, position_counts, frames, pending, trail, script>>

\* A query that leaves the object alone or raises: its result is recorded.
Query(op, arg, res) ==
  /\ Becomes(res.self)
  /\ ret' = Called(op, arg, res.ret, res.raised, Self, <<>>)
  /\ UNCHANGED <<frames, pending, trail, script>>

\* board.is_draw_by_50()
IsDrawBy50 ==
  /\ Ready
  /\ Query("is_draw_by_50", <<>>, [self |-> Self, ret |-> is_draw_by_50(Self), raised |-> FALSE])

\* board.is_in_check(color)
IsInCheck ==
  /\ Ready
  /\ \E color \in {WHITE, BLACK} : Query("is_in_check", color, is_in_check(Self, color))

\* board.is_checkmate()
IsCheckmate ==
  /\ Ready
  /\ Query("is_checkmate", <<>>, is_checkmate(Self))

\* board.is_stalemate()
IsStalemate ==
  /\ Ready
  /\ Query("is_stalemate", <<>>, is_stalemate(Self))

\* The caller takes the result of the call; a raise is not taken.  A move
\* that undo() reports undone leaves the trail.
Return ==
  /\ ret.status = "returned"
  /\ ret' = NoRet
  /\ trail' = IF ret.op = "undo" /\ ret.val THEN SubSeq(trail, 1, Len(trail) - 1) ELSE trail
  /\ UNCHANGED <<board, turn, castling_rights, en_passant, halfmove_clock,
                 fullmove_number, history, position_counts, frames, pending, script>>

(***************************************************************************)
(* Engine.choose_move(board, depth), step by step                          *)
(***************************************************************************)

\* The search goes on with the next move of the innermost loop, or that
\* loop is over and its activation returns.
Search(obj, stack, call, status, val) ==
  /\ Becomes(obj)
  /\ frames' = stack
  /\ pending' = call
  /\ ret' = [ret EXCEPT !.status = status, !.val = val]
  /\ UNCHANGED <<trail, script>>

\* choose_move up to its first call of _search: no legal move returns None.
ChooseMoveGiven(self, depth, legal) ==
  LET moves == SortMoves(legal.ret)
      child == Child(legal.self, moves[1])
  IN IF legal.raised
     THEN [self |-> legal.self, frames |-> <<>>, pending |-> Idle, status |-> "raised"]
     ELSE IF legal.ret = <<>>
     THEN [self |-> legal.self, frames |-> <<>>, pending |-> Idle, status |-> "returned"]
     ELSE [self |-> child.self,
           frames |-> <<Frame(TRUE, moves, 1, child.snap, -INF, INF,
                              WorstFor(legal.self.turn), NoMove, depth)>>,
           pending |-> Calling(depth - 1, -INF, INF),
           status |-> "running"]

ChooseMove ==
  /\ Ready
  /\ Len(history) \in script.engine_at
  /\ \E depth \in 1..script.depth :
       \E res \in {ChooseMoveGiven(Self, depth, all_legal_moves(Self))} :
         /\ Becomes(res.self)
         /\ frames' = res.frames
         /\ pending' = res.pending
         /\ ret' = [op |-> "choose_move", arg |-> depth, val |-> NoMove,
                    status |-> res.status, pre |-> Self, legal |-> <<>>]
  /\ UNCHANGED <<trail, script>>

\* _search is called: a leaf returns its evaluation, an inner node enters
\* its loop and calls _search for its first move.
SearchCallGiven(stack, call, node) ==
  LET child == Child(node.self, node.moves[1])
  IN CASE node.kind = "raised" ->
            [self |-> node.self, frames |-> <<>>, pending |-> Idle, status |-> "raised"]
       [] node.kind = "leaf" ->
            [self |-> node.self, frames |-> stack, pending |-> Returning(node.val),
             status |-> "running"]
       [] node.kind = "inner" ->
            [self |-> child.self,
             frames |-> Append(stack, Frame(FALSE, node.moves, 1, child.snap,
                                            call.alpha, call.beta,
                                            WorstFor(node.self.turn), NoMove, call.depth)),
             pending |-> Calling(call.depth - 1, call.alpha, call.beta),
             status |-> "running"]

SearchCall ==
  /\ pending.kind = "call"
  /\ \E res \in {SearchCallGiven(frames, pending, Visit(Self, pending.depth))} :
       Search(res.self, res.frames, res.pending, res.status, ret.val)

\* _search has returned pending.val to the innermost loop: the loop body
\* ends; then either the next move is applied and _search called for it, or
\* the loop is over and the activation returns its best value (choose_move:
\* its best move).
SearchReturnGiven(stack, after) ==
  LET f == after.frame
      outer == SubSeq(stack, 1, Len(stack) - 1)
      child == Child(after.self, f.moves[f.k + 1])
      next == [f EXCEPT !.k = f.k + 1, !.snap = child.snap]
  IN IF after.over
     THEN IF f.root
          THEN [self |-> after.self, frames |-> <<>>, pending |-> Idle,
                status |-> "returned", val |-> f.best_move]
          ELSE [self |-> after.self, frames |-> outer, pending |-> Returning(f.best),
                status |-> "running", val |-> NoMove]
     ELSE [self |-> child.self, frames |-> Append(outer, next),
           pending |-> IF f.root THEN Calling(f.depth - 1, -INF, INF)
                       ELSE Calling(f.depth - 1, f.alpha, f.beta),
           status |-> "running", val |-> NoMove]

SearchReturn ==
  /\ pending.kind = "return"
  /\ \E f \in {frames[Len(frames)]} :
       \E after \in {IF f.root THEN AfterRootChild(Self, f, pending.val)
                      ELSE AfterChild(Self, f, pending.val)} :
         \E res \in {SearchReturnGiven(frames, after)} :
           Search(res.self, res.frames, res.pending, res.status, res.val)

Next ==
  \/ MakeMove
  \/ MakeParsedMove
  \/ Undo
  \/ ParseMoveStr
  \/ AllLegalMoves
  \/ IsDrawByThreefold
  \/ IsDrawBy50
  \/ IsInCheck
  \/ IsCheckmate
  \/ IsStalemate
  \/ ChooseMove
  \/ SearchCall
  \/ SearchReturn
  \/ Return

Spec == Init /\ [][Next]_vars

(***************************************************************************)
(* Properties                                                              *)
(*                                                                         *)
(* A property of a call is stated in the states where the call has just    *)
(* ended: ret holds its arguments, its result, the object before it        *)
(* (ret.pre) and the legal moves it generated (ret.legal).                 *)
(***************************************************************************)

\* make_move has just returned True.
Accepted == ret.op = "make_move" /\ ret.status = "returned" /\ ret.val

\* The object with a piece of `color` on sq, where sq is empty.
Occupied(self, sq, color) ==
  IF self.board[sq[1]][sq[2]] = NoPiece
  THEN [self EXCEPT !.board[sq[1]][sq[2]] = Piece("N", color)]
  ELSE self

\* sq is attacked by `attacker`: a piece standing there could be captured,
\* that is, the attacker's own pseudo-legal moves hold a capture on sq.
Attacked(self, sq, attacker) ==
  LET moves == generate_pseudo_legal_moves(Occupied(self, sq, Opponent(attacker)), attacker)
  IN \E k \in 1..Len(moves) : moves[k].dst = sq /\ moves[k].captured # NoPiece

\* C1: after any move that generate_legal_moves(turn) returns is applied
\* with _apply_move, the mover's king is not attacked by the opponent.
LegalityClosure ==
  (ret.op = "all_legal_moves" /\ ret.status = "returned") =>
    \A k \in 1..Len(ret.val) :
      \E after \in {_apply_move(ret.pre, ret.val[k])} :
        ~Attacked(after, king_position(after, ret.pre.turn), Opponent(ret.pre.turn))

\* C2: when choose_move returns, with a move or with None, every field of
\* the board is what it was before the call.
SearchPurity ==
  (ret.op = "choose_move" /\ ret.status = "returned") => Self = ret.pre

\* choose_move has returned a move from a search two plies deep.
SearchPurityWitness ==
  ret.op = "choose_move" /\ ret.status = "returned" /\ ret.arg = 2 /\ ret.val # NoMove

\* C3: undo() returns True and restores the object that was there before
\* the most recent committed move not yet undone, field by field, history
\* and position counts included; with no such move it returns False and
\* changes nothing.
RoundTripUndo ==
  ret.op = "undo" =>
    IF trail = <<>>
    THEN ~ret.val /\ Self = ret.pre
    ELSE ret.val /\ Self = trail[Len(trail)]

\* undo() has taken back a committed move that was not the first: the
\* object is the one before that move, one snapshot shorter, and the count
\* of the position left is back down.
RoundTripUndoWitness ==
  /\ ret.op = "undo"
  /\ ret.val
  /\ Len(trail) >= 2
  /\ Self = trail[Len(trail)]
  /\ Len(history) + 1 = Len(ret.pre.history)
  /\ position_counts # ret.pre.position_counts

\* C4: make_move(m) returns True exactly when m's identity tuple is that of
\* a legal move, whatever m.captured and m.piece are; False leaves every
\* field unchanged; True pushes one snapshot of the object before the move
\* and flips the turn.
MakeMoveContract ==
  (ret.op = "make_move" /\ ret.status = "returned") =>
    LET Identity(m) ==
          <<m.src, m.dst, m.promotion, m.is_en_passant, m.is_castle_king, m.is_castle_queen>>
        matches == \E k \in 1..Len(ret.legal) : Identity(ret.legal[k]) = Identity(ret.arg)
    IN /\ ret.val = matches
       /\ ~ret.val => Self = ret.pre
       /\ ret.val => /\ history = Append(ret.pre.history, _snapshot(ret.pre))
                     /\ turn = Opponent(ret.pre.turn)

\* make_move has accepted a castling move built by hand, piece and captured
\* left at None, while the legal move it matches carries its piece.
MakeMoveContractWitness ==
  /\ Accepted
  /\ ret.arg.is_castle_king
  /\ ret.arg.piece = NoPiece
  /\ \E k \in 1..Len(ret.legal) : ret.legal[k].is_castle_king /\ ret.legal[k].piece # NoPiece

\* C5: after an accepted two-square pawn push en_passant is the square the
\* pawn skipped; after any other accepted move it is None.
EnPassantWindow ==
  Accepted =>
    LET m == ret.arg
        piece == ret.pre.board[m.src[1]][m.src[2]]
    IN IF piece.type = "P" /\ Abs(m.dst[1] - m.src[1]) = 2
       THEN en_passant = <<(m.src[1] + m.dst[1]) \div 2, m.dst[2]>>
       ELSE en_passant = NoSquare

\* A target set by a double push has gone with the next accepted move.
EnPassantWindowWitness ==
  Accepted /\ ret.pre.en_passant # NoSquare /\ en_passant = NoSquare

\* Two objects hold the same position: placement, side to move, castling
\* rights and en-passant target; the clocks do not count.
SamePosition(a, b) ==
  /\ a.board = b.board
  /\ a.turn = b.turn
  /\ a.castling_rights = b.castling_rights
  /\ a.en_passant = b.en_passant

\* How often the position of obj has occurred among the start and the
\* positions after each committed move, obj's own occurrence included.
Occurrences(obj) == Cardinality({k \in 1..Len(trail) : SamePosition(trail[k], obj)}) + 1

\* C6: is_draw_by_threefold() is true exactly when the current position has
\* occurred three times or more among the start and the positions after
\* each committed move; each committed move raises the count of exactly one
\* key, by one.
ThreefoldRepetition ==
  /\ ret.op = "is_draw_by_threefold" => (ret.val <=> Occurrences(Self) >= 3)
  /\ Accepted =>
       /\ DOMAIN ret.pre.position_counts \subseteq DOMAIN position_counts
       /\ \E key \in DOMAIN position_counts :
            /\ position_counts[key] = Get(ret.pre.position_counts, key) + 1
            /\ \A other \in DOMAIN position_counts \ {key} :
                 /\ other \in DOMAIN ret.pre.position_counts
                 /\ position_counts[other] = ret.pre.position_counts[other]

\* The position has come a third time and is_draw_by_threefold() says so.
ThreefoldRepetitionWitness ==
  ret.op = "is_draw_by_threefold" /\ ret.val /\ Occurrences(Self) = 3

\* C7: generate_legal_moves holds no castling move when the king is in
\* check, none when the square the king crosses or the one it lands on is
\* attacked, none when the right is not held or a square between king and
\* rook is occupied.
CastlingDenial ==
  (ret.op = "all_legal_moves" /\ ret.status = "returned") =>
    \A k \in 1..Len(ret.val) :
      LET m == ret.val[k]
          color == ret.pre.turn
          row == m.src[1]
          right == IF m.is_castle_king
                   THEN (IF color = WHITE THEN "K" ELSE "k")
                   ELSE (IF color = WHITE THEN "Q" ELSE "q")
          path == IF m.is_castle_king THEN {5, 6} ELSE {3, 2}
          between == IF m.is_castle_king THEN {5, 6} ELSE {1, 2, 3}
      IN (m.is_castle_king \/ m.is_castle_queen) =>
           /\ ~Attacked(ret.pre, m.src, Opponent(color))
           /\ \A cc \in path : ~Attacked(ret.pre, <<row, cc>>, Opponent(color))
           /\ right \in ret.pre.castling_rights
           /\ \A cc \in between : ret.pre.board[row][cc] = NoPiece

\* The coordinate text of a move: source square, destination square and,
\* when the move promotes, the promotion letter.
CoordText(m) ==
  <<FILES[m.src[2] + 1], RANKS[8 - m.src[1]], FILES[m.dst[2] + 1], RANKS[8 - m.dst[1]]>>
    \o (IF m.promotion = NoPromo THEN <<>> ELSE lower(<<m.promotion>>))

\* C8: parse_move_str of the coordinate text of a legal move returns a
\* legal move with the same source, destination and promotion.
ParseFindsEveryLegalMove ==
  ret.op = "parse_move_str" =>
    \A k \in 1..Len(ret.legal) :
      CoordText(ret.legal[k]) = ret.arg =>
        /\ ret.status = "returned"
        /\ \E j \in 1..Len(ret.legal) : ret.legal[j] = ret.val
        /\ ret.val.src = ret.legal[k].src
        /\ ret.val.dst = ret.legal[k].dst
        /\ ret.val.promotion = ret.legal[k].promotion

\* C9: when a promoting pawn move from A to B is legal, parse_move_str of
\* the four-character text naming A and B returns the Queen promotion from
\* A to B.
AutoQueen ==
  ret.op = "parse_move_str" =>
    \A k \in 1..Len(ret.legal) :
      (ret.legal[k].promotion # NoPromo /\ SubSeq(CoordText(ret.legal[k]), 1, 4) = ret.arg) =>
        /\ ret.status = "returned"
        /\ ret.val.src = ret.legal[k].src
        /\ ret.val.dst = ret.legal[k].dst
        /\ ret.val.promotion = "Q"

\* The squares written in a text of coordinate notation: <<src, dst>>, or
\* <<>> when the text is not of that form.
Written(text) ==
  LET s == lower(strip(text))
      src == algebraic_to_coords(SubSeq(s, 1, 2))
      dst == algebraic_to_coords(SubSeq(s, 3, 4))
  IN IF Len(s) \notin {4, 5} \/ src.raised \/ dst.raised THEN <<>>
     ELSE <<src.ret, dst.ret>>

\* The text names a legal move: a castling token when that castling is
\* legal, squares when a legal move goes from the first to the second.
NamesLegalMove(text, legal) ==
  LET s == lower(strip(text))
  IN IF s \in {<<"0", "-", "0">>, <<"o", "-", "o">>}
     THEN \E k \in 1..Len(legal) : legal[k].is_castle_king
     ELSE IF s \in {<<"0", "-", "0", "-", "0">>, <<"o", "-", "o", "-", "o">>}
     THEN \E k \in 1..Len(legal) : legal[k].is_castle_queen
     ELSE /\ Written(text) # <<>>
          /\ \E k \in 1..Len(legal) : <<legal[k].src, legal[k].dst>> = Written(text)

\* C10: parse_move_str never raises; for a text that is malformed or names
\* no legal move of the side to move it returns None and leaves the board
\* unchanged; the move it returns for a text of coordinate notation goes
\* from and to the squares written.
ParseRejectsByValue ==
  ret.op = "parse_move_str" =>
    /\ ret.status = "returned"
    /\ ~NamesLegalMove(ret.arg, ret.legal) => (ret.val = NoMove /\ Self = ret.pre)
    /\ (ret.val # NoMove /\ Written(ret.arg) # <<>>) =>
         <<ret.val.src, ret.val.dst>> = Written(ret.arg)

\* The enemy piece a move removes from the object it is generated on: for
\* an en-passant move the pawn beside the source, on the destination's
\* column; otherwise the occupant of the destination, if any.
Removed(self, m) ==
  IF m.is_en_passant THEN self.board[m.src[1]][m.dst[2]]
  ELSE self.board[m.dst[1]][m.dst[2]]

\* C11: every move the generator returns carries piece = the piece on its
\* source square and captured = the enemy piece it removes: the occupant of
\* the destination, None for a non-capture, and for an en-passant move the
\* pawn captured, which is not on the destination.
MoveMetadata ==
  (ret.op = "all_legal_moves" /\ ret.status = "returned") =>
    \A k \in 1..Len(ret.val) :
      /\ ret.val[k].piece = ret.pre.board[ret.val[k].src[1]][ret.val[k].src[2]]
      /\ ret.val[k].captured = Removed(ret.pre, ret.val[k])

\* The squares of the grid that hold the king of `color`.
Kings(grid, color) ==
  {sq \in (0..7) \X (0..7) : grid[sq[1]][sq[2]] = Piece("K", color)}

\* C12: in every state, the positions the search visits included, the grid
\* holds exactly one white king and exactly one black king, and no call has
\* raised "King not found".
KingInvariant ==
  /\ Cardinality(Kings(board, WHITE)) = 1
  /\ Cardinality(Kings(board, BLACK)) = 1
  /\ ret.status # "raised"

\* The home square of the king and the corner of the rook a right is about.
KingHome(right) == IF right \in {"K", "Q"} THEN <<7, 4>> ELSE <<0, 4>>

RookCorner(right) ==
  CASE right = "K" -> <<7, 7>>
    [] right = "Q" -> <<7, 0>>
    [] right = "k" -> <<0, 7>>
    [] right = "q" -> <<0, 0>>

RightColor(right) == IF right \in {"K", "Q"} THEN WHITE ELSE BLACK

\* C13: after make_move or undo, a castling right is held only while that
\* side's king stands on its home square and a rook of that side stands on
\* the matching corner, and an accepted make_move never adds a right.
CastlingRightsInvariant ==
  (ret.op \in {"make_move", "undo"} /\ ret.status = "returned") =>
    /\ \A right \in castling_rights :
         /\ board[KingHome(right)[1]][KingHome(right)[2]] = Piece("K", RightColor(right))
         /\ board[RookCorner(right)[1]][RookCorner(right)[2]] = Piece("R", RightColor(right))
    /\ Accepted => castling_rights \subseteq ret.pre.castling_rights

\* e2e4, e7e5, g1f3, b8c6 have been committed from the start, in this
\* order, and nothing since: trail[k] is the object before the k-th move.
OpeningPlayed ==
  /\ Len(trail) = 4
  /\ Len(history) = 4
  /\ trail[1] = NewBoard
  /\ trail[2].board[4][4] = Piece("P", WHITE)
  /\ trail[3].board[3][4] = Piece("P", BLACK)
  /\ trail[4].board[5][5] = Piece("N", WHITE)
  /\ board[2][2] = Piece("N", BLACK)

\* C14: after every accepted make_move, halfmove_clock is 0 when the moved
\* piece was a pawn or the move captured a piece (en passant included) and
\* one more than before otherwise; fullmove_number is one more than before
\* exactly when the mover was Black; is_draw_by_50() is true exactly when
\* halfmove_clock >= 100.  After e2e4, e7e5, g1f3, b8c6 from the start the
\* turn is White's, fullmove_number is 3 and halfmove_clock is 2, and the
\* clock was 0 right after e7e5.
Clocks ==
  /\ Accepted =>
       LET m == ret.arg
           piece == ret.pre.board[m.src[1]][m.src[2]]
           target == ret.pre.board[m.dst[1]][m.dst[2]]
           passed == piece.type = "P" /\ m.src[2] # m.dst[2] /\ target = NoPiece
       IN /\ halfmove_clock = IF piece.type = "P" \/ target # NoPiece \/ passed
                              THEN 0 ELSE ret.pre.halfmove_clock + 1
          /\ fullmove_number = ret.pre.fullmove_number
                                 + (IF ret.pre.turn = BLACK THEN 1 ELSE 0)
  /\ ret.op = "is_draw_by_50" =>
       /\ ret.status = "returned"
       /\ ret.val <=> halfmove_clock >= 100
  /\ OpeningPlayed =>
       /\ turn = WHITE /\ fullmove_number = 3 /\ halfmove_clock = 2
       /\ trail[3].halfmove_clock = 0

\* The clock has run up to 100 with knight moves only and is_draw_by_50()
\* says so; the move before, it did not.
ClocksWitness ==
  /\ ret.op = "is_draw_by_50"
  /\ ret.val
  /\ halfmove_clock = 100
  /\ fullmove_number = 51
  /\ ~is_draw_by_50(trail[Len(trail)])

\* The four moves of the opening have been played.
ClocksOpeningWitness == OpeningPlayed /\ Accepted

\* The row a pawn of `color` promotes on, and the row before it.
FarRow(color) == IF color = WHITE THEN 0 ELSE 7

LastStep(color) == IF color = WHITE THEN 1 ELSE 6

\* The squares a pawn of `color` on <<r, c>>, one step from its farthest
\* row, can advance to: straight ahead when empty, diagonally ahead when an
\* enemy piece stands there.
Advances(grid, r, c, color) ==
  (IF grid[FarRow(color)][c] = NoPiece THEN {<<FarRow(color), c>>} ELSE {})
    \cup {<<FarRow(color), cc>> :
            cc \in {y \in {c - 1, c + 1} \cap (0..7) :
                      /\ grid[FarRow(color)][y] # NoPiece
                      /\ grid[FarRow(color)][y].color = Opponent(color)}}

\* C15: for a pawn one step from its farthest row each available advance
\* yields exactly four pseudo-legal moves, one per promotion kind, and no
\* move of that pawn has promotion None; applying a promoting move puts a
\* piece of the chosen kind and the mover's colour on the destination; no
\* pawn stands on row 0 or row 7.
PromotionCompleteness ==
  /\ \A c \in 0..7 : board[0][c].type # "P" /\ board[7][c].type # "P"
  /\ \A color \in {WHITE, BLACK} : \A c \in 0..7 :
       board[LastStep(color)][c] = Piece("P", color) =>
         \E moves \in {_generate_pseudo_moves_for_piece(Self, LastStep(color), c)} :
           /\ \A k \in 1..Len(moves) : moves[k].promotion # NoPromo
           /\ \A dst \in Advances(board, LastStep(color), c, color) :
                \A kind \in {"Q", "R", "B", "N"} :
                  Cardinality({k \in 1..Len(moves) :
                                 moves[k].dst = dst /\ moves[k].promotion = kind}) = 1
           /\ Len(moves) = 4 * Cardinality(Advances(board, LastStep(color), c, color))
  /\ (Accepted /\ ret.arg.promotion # NoPromo) =>
       board[ret.arg.dst[1]][ret.arg.dst[2]] = Piece(ret.arg.promotion, ret.pre.turn)

\* A black pawn has just promoted to a queen by a push onto g1.
PromotionCompletenessWitness ==
  /\ Accepted
  /\ ret.arg.promotion = "Q"
  /\ ret.arg.src = <<6, 6>>
  /\ ret.arg.dst = <<7, 6>>
  /\ board[7][6] = Piece("Q", BLACK)
  /\ Cardinality(Advances(ret.pre.board, 6, 6, BLACK)) >= 2

\* C16: choose_move(board, depth) never raises; it returns None exactly
\* when the side to move has no legal move, and otherwise a move of
\* all_legal_moves() for the position it was called on.
ChooseMoveContract ==
  (ret.op = "choose_move" /\ ret.status # "running") =>
    /\ ret.status = "returned"
    /\ \E legal \in {all_legal_moves(ret.pre)} :
         /\ ~legal.raised
         /\ ret.val = NoMove <=> legal.ret = <<>>
         /\ ret.val # NoMove => \E k \in 1..Len(legal.ret) : legal.ret[k] = ret.val

\* C17: from the standard starting position all_legal_moves() returns
\* exactly 20 moves, 16 of pawns and 4 of knights, no two with the same
\* identity tuple.
TwentyMovesAtStart ==
  (ret.op = "all_legal_moves" /\ SamePosition(ret.pre, NewBoard)) =>
    LET Identity(m) ==
          <<m.src, m.dst, m.promotion, m.is_en_passant, m.is_castle_king, m.is_castle_queen>>
        OfType(type) == {k \in 1..Len(ret.val) : ret.val[k].piece.type = type}
    IN /\ ret.status = "returned"
       /\ Len(ret.val) = 20
       /\ Cardinality(OfType("P")) = 16
       /\ Cardinality(OfType("N")) = 4
       /\ Cardinality({Identity(ret.val[k]) : k \in 1..Len(ret.val)}) = 20

\* all_legal_moves() has been called on the board as constructed.
TwentyMovesAtStartWitness ==
  ret.op = "all_legal_moves" /\ ret.pre = NewBoard /\ Len(ret.val) = 20

\* f2f3, e7e5, g2g4, d8h4 have been committed from the start, in this
\* order, and nothing since.
FoolsMatePlayed ==
  /\ Len(trail) = 4
  /\ Len(history) = 4
  /\ trail[1] = NewBoard
  /\ trail[2].board[5][5] = Piece("P", WHITE)
  /\ trail[3].board[3][4] = Piece("P", BLACK)
  /\ trail[4].board[4][6] = Piece("P", WHITE)
  /\ board[4][7] = Piece("Q", BLACK)

\* A castling move is barred: the king is attacked where it stands, or the
\* square it crosses or the one it lands on is.
CastlingBarred(obj, m) ==
  \E cc \in (IF m.is_castle_king THEN {4, 5, 6} ELSE {4, 3, 2}) :
    Attacked(obj, <<m.src[1], cc>>, Opponent(obj.turn))

\* The side to move in obj has a legal move: a pseudo-legal move, not a
\* barred castling, after which its king is not attacked.
HasLegalMove(obj) ==
  \E moves \in {generate_pseudo_legal_moves(obj, obj.turn)} :
    \E k \in 1..Len(moves) :
      /\ (moves[k].is_castle_king \/ moves[k].is_castle_queen) => ~CastlingBarred(obj, moves[k])
      /\ \E after \in {_apply_move(obj, moves[k])} :
           ~Attacked(after, king_position(after, obj.turn), Opponent(obj.turn))

\* The king of the side to move in obj is attacked.
InCheck(obj) == Attacked(obj, king_position(obj, obj.turn), Opponent(obj.turn))

\* C18: after the fool's mate f2f3, e7e5, g2g4, d8h4, is_checkmate() is
\* true, all_legal_moves() is empty, is_in_check(White) is true and
\* is_stalemate() is false; is_checkmate() and is_stalemate() are never
\* both true, and each holds exactly when the side to move has no legal
\* move and is, respectively is not, in check.
CheckmateDetection ==
  /\ FoolsMatePlayed =>
       /\ ret.op = "is_checkmate" => ret.status = "returned" /\ ret.val
       /\ ret.op = "is_stalemate" => ret.status = "returned" /\ ~ret.val
       /\ (ret.op = "is_in_check" /\ ret.arg = WHITE) => ret.status = "returned" /\ ret.val
       /\ ret.op = "all_legal_moves" => ret.status = "returned" /\ ret.val = <<>>
  /\ (ret.op = "is_checkmate" /\ ret.status = "returned") =>
       /\ ret.val <=> (~HasLegalMove(ret.pre) /\ InCheck(ret.pre))
       /\ ~(ret.val /\ is_stalemate(ret.pre).ret)
  /\ (ret.op = "is_stalemate" /\ ret.status = "returned") =>
       /\ ret.val <=> (~HasLegalMove(ret.pre) /\ ~InCheck(ret.pre))
       /\ ~(ret.val /\ is_checkmate(ret.pre).ret)


\* The best of the values of a node's children for the side to move there;
\* no value when a child has none.
BestOf(vals, white) ==
  IF \E k \in DOMAIN vals : ~vals[k].ok
  THEN [ok |-> FALSE, val |-> 0]
  ELSE [ok |-> TRUE,
        val |-> CHOOSE v \in {vals[k].val : k \in DOMAIN vals} :
                  \A k \in DOMAIN vals :
                    IF white THEN v >= vals[k].val ELSE v <= vals[k].val]

\* The value of a leaf: evaluate(), which has none when it raises.
LeafValue(e) == [ok |-> ~e.raised, val |-> e.ret]

\* Plain minimax to the given depth, every move of every node searched:
\* evaluate() where the depth is used up or the side to move has no legal
\* move, else the largest (White to move) or smallest (Black to move) value
\* of the positions after the legal moves.
RECURSIVE Minimax(_, _)
MinimaxOver(obj, depth, legal) ==
  IF legal.raised THEN [ok |-> FALSE, val |-> 0]
  ELSE IF depth = 0 \/ legal.ret = <<>> THEN LeafValue(evaluate(obj))
  ELSE BestOf([k \in 1..Len(legal.ret) |->
                 Minimax(Child(obj, legal.ret[k]).self, depth - 1)],
              obj.turn = WHITE)

Minimax(obj, depth) == MinimaxOver(obj, depth, all_legal_moves(obj))

\* The minimax values of the positions after the moves, to the given depth
ChildValues(obj, moves, depth) ==
  [k \in 1..Len(moves) |-> Minimax(Child(obj, moves[k]).self, depth)]

\* chosen is the first of the moves whose value is the best for the side.
FirstBest(moves, vals, best, chosen) ==
  /\ best.ok
  /\ \E k \in 1..Len(moves) :
       /\ vals[k].val = best.val
       /\ \A j \in 1..(k - 1) : vals[j].val # best.val
       /\ chosen = moves[k]

ChoiceIsFirstBest(obj, moves, vals, chosen) ==
  FirstBest(moves, vals, BestOf(vals, obj.turn = WHITE), chosen)

\* _search has returned to the loop of choose_move the value of the move
\* that loop is at.
RootChildSearched == pending.kind = "return" /\ Len(frames) = 1

Searching == ret.op = "choose_move" /\ ret.status = "running"

\* Every activation has one move applied: the position on the board is as
\* many plies below the root as there are activations, and the depths count
\* down by one from the root's.
DepthsCountDown ==
  Searching =>
    /\ \A i \in 1..Len(frames) : frames[i].depth = ret.arg - (i - 1)
    /\ \A i \in 2..Len(frames) : frames[i].depth \in 1..(ret.arg - 1)
    /\ Len(frames) \in 1..ret.arg
    /\ turn = IF Len(frames) % 2 = 0 THEN ret.pre.turn ELSE Opponent(ret.pre.turn)
    /\ pending.kind \in {"call", "return"}
    /\ pending.kind = "call" =>
         /\ pending.depth = ret.arg - Len(frames)
         /\ pending.depth \in 0..(ret.arg - 1)

\* _search is entered with no depth left, or at a position that
\* is_checkmate() or is_stalemate() reports.
AtBaseCase ==
  /\ Searching
  /\ pending.kind = "call"
  /\ \/ pending.depth = 0
     \/ is_checkmate(Self).ret
     \/ is_stalemate(Self).ret

\* The call ends without a recursive call: no activation is added and no
\* call of _search follows.
EndsWithoutRecursing ==
  AtBaseCase => pending'.kind # "call" /\ Len(frames') <= Len(frames)

\* What is left of the search: for each activation, outermost first, twice
\* the number of its moves still to be searched, plus one while the move it
\* is at is being searched.
SearchRank ==
  [i \in 1..Len(frames) |->
     2 * (Len(frames[i].moves) - frames[i].k)
     + (IF i = Len(frames) /\ pending.kind = "return" THEN 0 ELSE 1)]

\* a comes before b: where they first differ a is smaller, or a goes on
\* where b has ended.  No sequence of at most depth numbers has infinitely
\* many before it one after the other.
Before(a, b) ==
  \E i \in 1..Len(a) :
    /\ \A j \in 1..(i - 1) : j <= Len(b) /\ a[j] = b[j]
    /\ i > Len(b) \/ a[i] < b[i]

\* Every step of the search leaves less of it.
RankGoesDown == (Searching /\ Searching') => Before(SearchRank', SearchRank)

\* C20: choose_move(board, depth) ends for every depth >= 1: while it
\* searches it can take a step, and each step leaves less to search; the
\* depth goes down by one per level of recursion, _search is entered with
\* depths in 0..depth - 1 only, a call with depth 0 or at a checkmate or
\* stalemate ends without recursing, and no position searched is more than
\* depth plies below the root.
SearchTermination ==
  /\ []DepthsCountDown
  /\ [][EndsWithoutRecursing /\ RankGoesDown]_vars

\* _search is entered, with depth left, at a position where the side to
\* move is checkmated.
SearchTerminationWitness ==
  Searching /\ pending.kind = "call" /\ pending.depth >= 1 /\ is_checkmate(Self).ret


\* The queries the caller makes of the board
QueryOps ==
  {"parse_move_str", "all_legal_moves", "is_draw_by_threefold", "is_draw_by_50",
   "is_in_check", "is_checkmate", "is_stalemate"}

\* C21: a query leaves every field of the object as it was before the call:
\* the queries the caller makes, and, on the object as it stands between
\* calls, generate_legal_moves for either color and Engine.evaluate.
QueriesPure ==
  /\ (ret.op \in QueryOps /\ ret.status \in {"returned", "raised"}) => Self = ret.pre
  /\ Ready =>
       /\ \A color \in {WHITE, BLACK} : generate_legal_moves(Self, color).self = Self
       /\ evaluate(Self).self = Self


\* The position of the i-th activation of the search: the fields its
\* snapshot holds, taken before the move it is at was applied.
NodeOf(i) == _restore(Self, frames[i].snap)

\* m takes a piece (on its destination, or en passant) or promotes.
TakesOrPromotes(obj, m) ==
  \/ obj.board[m.dst[1]][m.dst[2]] # NoPiece
  \/ m.is_en_passant
  \/ m.promotion # NoPromo

\* tried is generated with the moves that take or promote moved to the
\* front, either group in the order it had.
TakersFirst(obj, generated, tried) ==
  LET Loud(m) == TakesOrPromotes(obj, m)
      Quiet(m) == ~TakesOrPromotes(obj, m)
  IN tried = SelectSeq(generated, Loud) \o SelectSeq(generated, Quiet)

\* C22: the moves choose_move and _search try at a node are its legal
\* moves with every capture (en passant included) and every promotion
\* before every other move, each group in the generator's order.
MoveOrdering ==
  \A i \in 1..Len(frames) :
    \E node \in {NodeOf(i)} :
      TakersFirst(node, all_legal_moves(node).ret, frames[i].moves)


\* The square behind the destination of an en-passant move of color, the
\* one _apply_move empties
BehindOf(m, color) == <<m.dst[1] + (IF color = WHITE THEN 1 ELSE -1), m.dst[2]>>

\* The side whose pawn made the double push that set the en-passant target:
\* a white pawn passes over row 5, a black one over row 2.
Pusher(obj) == IF obj.en_passant[1] = 5 THEN WHITE ELSE BLACK

\* Every en-passant move among the moves is made by a pawn of color and
\* takes a pawn of the other color, and color is not the side that pushed.
TakesPushedPawn(obj, color, moves) ==
  \A k \in 1..Len(moves) :
    moves[k].is_en_passant =>
      /\ obj.board[moves[k].src[1]][moves[k].src[2]] = Piece("P", color)
      /\ in_bounds(BehindOf(moves[k], color)[1], BehindOf(moves[k], color)[2])
      /\ obj.board[BehindOf(moves[k], color)[1]][BehindOf(moves[k], color)[2]]
           = Piece("P", Opponent(color))
      /\ color # Pusher(obj)

\* C23: between calls, for either color, every en-passant move that
\* generate_pseudo_legal_moves and generate_legal_moves produce is made by a
\* pawn of that color and takes, behind its destination, a pawn of the other
\* color; none is produced for the side whose pawn made the double push.
EnPassantGeneration ==
  Ready =>
    \A color \in {WHITE, BLACK} :
      /\ TakesPushedPawn(Self, color, generate_pseudo_legal_moves(Self, color))
      /\ TakesPushedPawn(Self, color, generate_legal_moves(Self, color).ret)


\* The squares of the grid that hold a piece of the color
Men(grid, color) ==
  {sq \in (0..7) \X (0..7) :
     grid[sq[1]][sq[2]] # NoPiece /\ grid[sq[1]][sq[2]].color = color}

\* Those that hold a piece of the color and type
MenOfType(grid, color, type) ==
  {sq \in (0..7) \X (0..7) : grid[sq[1]][sq[2]] = Piece(type, color)}

\* The move m, made on the object before, takes a piece: its destination
\* held one of the other side, or it is an en-passant capture.
Takes(before, m) ==
  \/ before.board[m.dst[1]][m.dst[2]] # NoPiece
  \/ m.is_en_passant

\* The mover has as many pieces of each type as before, but for a promotion,
\* which turns one pawn into one piece of the chosen type.
SameMen(before, grid, m, mover) ==
  \A type \in {"P", "N", "B", "R", "Q", "K"} :
    Cardinality(MenOfType(grid, mover, type)) =
      Cardinality(MenOfType(before.board, mover, type))
      + (IF m.promotion = NoPromo THEN 0
         ELSE IF type = "P" THEN -1
         ELSE IF type = m.promotion THEN 1
         ELSE 0)

\* C24: after an accepted make_move the mover has as many pieces as before
\* (of each type, but for a promotion) and the opponent has one less when
\* the destination held an enemy piece or the move is an en-passant capture,
\* else as many; the piece an en-passant capture removes is the pawn behind
\* its destination, which itself was empty.
MaterialConservation ==
  Accepted =>
    \E mover \in {ret.pre.turn} :
      /\ Cardinality(Men(board, mover)) = Cardinality(Men(ret.pre.board, mover))
      /\ SameMen(ret.pre, board, ret.arg, mover)
      /\ Cardinality(Men(board, Opponent(mover))) =
           Cardinality(Men(ret.pre.board, Opponent(mover)))
           - (IF Takes(ret.pre, ret.arg) THEN 1 ELSE 0)
      /\ ret.pre.board[ret.arg.dst[1]][ret.arg.dst[2]] # NoPiece =>
           ret.pre.board[ret.arg.dst[1]][ret.arg.dst[2]].color = Opponent(mover)
      /\ ret.arg.is_en_passant =>
           \E behind \in {BehindOf(ret.arg, mover)} :
             /\ ret.pre.board[ret.arg.dst[1]][ret.arg.dst[2]] = NoPiece
             /\ ret.pre.board[behind[1]][behind[2]] = Piece("P", Opponent(mover))
             /\ board[behind[1]][behind[2]] = NoPiece

\* An en-passant capture has been accepted and has left the opponent with
\* fifteen pieces.
MaterialConservationWitness ==
  /\ Accepted
  /\ ret.arg.is_en_passant
  /\ Cardinality(Men(board, Opponent(ret.pre.turn))) = 15

====
